---------------------------- MODULE Spec2Model ----------------------------
(***************************************************************************)
(* Timetable solver service.                                               *)
(*                                                                         *)
(*   src/solver_horario.py  resolver_horario builds a CP-SAT model from    *)
(*                          the request, solves it, and formats either the *)
(*                          assignment or the analyzer's diagnosis; main   *)
(*                          wraps it with a catch-all error response.      *)
(*   src/app.py             POST /solve runs solver_horario.py in a        *)
(*                          subprocess and waits for it with a timeout.    *)
(*                                                                         *)
(* The CP-SAT engine is a black box: Solve returns any assignment that     *)
(* satisfies the constraints the code added (OPTIMAL or FEASIBLE),         *)
(* INFEASIBLE when there is none, UNKNOWN when its time limit runs out,    *)
(* MODEL_INVALID when a variable has an empty domain or a divisor is zero. *)
(* Unit indices are 0-based as in the code; unit i is unidades[i + 1].     *)
(***************************************************************************)
EXTENDS Integers, Sequences, FiniteSets

VARIABLES
    stdin,      \* what main reads: [valido |-> json.loads succeeds, datos |-> the document]
    fase,       \* subprocess: "no_creado", "arrancando", "ejecutando", "terminado"
    valores,    \* solver.Value(asignacion[i]) of the last successful Solve, << >> otherwise
    status,     \* what solver.Solve returned ("NONE" before, or when it never ran)
    salida,     \* the JSON document main printed on stdout (SinSalida before)
    peticion,   \* the request body POSTed to /solve (SinPeticion for a direct run)
    hpc,        \* /solve handler: "ninguno", "recibida", "esperando", "respondida"
    http,       \* the handler's response (SinSalida before it returns)
    reloj,      \* seconds since Popen
    inicioSolver \* reloj when solver.Solve was called

vars == <<stdin, fase, valores, status, salida, peticion, hpc, http, reloj, inicioSolver>>

---------------------------------------------------------------------------
\* Bounds of the explored inputs.
MaxPeriodos == 2            \* len(periodos_validos) and periodos_por_dia go up to this
MaxDias     == 2            \* len(dias) goes up to this
MaxUnidadesSinBloques == 3  \* len(unidades) in the block-free single-day requests

\* Program constants.
CommunicateTimeout == 60      \* app.py: proc.communicate(..., timeout=60)
MaxTimeUnidia      == 30      \* solver.parameters.max_time_in_seconds, single-day
MaxTimeMultidia    == 60      \* solver.parameters.max_time_in_seconds, multi-day

Docentes  == {1, 2}
GradoSets == {{1}, {2}, {1, 2}}

\* A key that is not in a dict / a field the request did not send.
Ausente    == -1
SinClave   == "<sin clave>"
SinSalida  == [exito |-> FALSE, asignaciones |-> << >>,
               mensaje |-> [texto |-> "<nada>", cabecera |-> << >>, problemas |-> << >>],
               status |-> SinClave, modo |-> SinClave]
SinPeticion == [ninguna |-> TRUE]

Min(a, b) == IF a <= b THEN a ELSE b
Max(a, b) == IF a >= b THEN a ELSE b

---------------------------------------------------------------------------
\* Input documents.

Unidad == [id_docente : Docentes, grados : GradoSets]

SeqsHasta(S, n) == UNION {[1..k -> S] : k \in 0..n}

\* periodos_validos and dias: ordered lists of distinct labels.
PeriodoLabel(k) == 100 + k
DiaLabel(k)     == 200 + k
ListaPeriodos(n) == [k \in 1..n |-> PeriodoLabel(k)]
ListaDias(n)     == [k \in 1..n |-> DiaLabel(k)]

\* The label the formatter makes up for a day index beyond dias: f'DIA_{dia_idx}'.
DiaSintetico(k) == 900 + k

U(d, i) == d.unidades[i + 1]
NumUnidades(d) == Len(d.unidades)
Indices(d) == 0..(NumUnidades(d) - 1)

---------------------------------------------------------------------------
\* resolver_horario: reading the request.

\* datos.get('periodos_por_dia', len(periodos_validos))
PeriodosPorDia(d) ==
    IF d.periodos_por_dia = Ausente THEN Len(d.periodos_validos)
    ELSE d.periodos_por_dia

NumDias(d) == Len(d.dias)

\* mismo_bloque: the pairs (min, max) of indices listed together in one block.
MismoBloque(d) ==
    UNION {LET indices == d.bloques_equiv[b] IN
           {<<Min(indices[p[1]], indices[p[2]]), Max(indices[p[1]], indices[p[2]])>> :
                p \in {q \in (1..Len(indices)) \X (1..Len(indices)) : q[1] < q[2]}} :
           b \in 1..Len(d.bloques_equiv)}

\* num_slots (multi-day) or num_periodos (single-day): the size of the domain.
NumSlots(d) ==
    IF d.modo_multidia THEN NumDias(d) * PeriodosPorDia(d)
    ELSE Len(d.periodos_validos)

get_dia(d, slot)     == slot \div PeriodosPorDia(d)
get_periodo(d, slot) == slot % PeriodosPorDia(d)

\* asignacion[indices[k]] raises KeyError for an index that is no unit.
ClaveInvalida(d) ==
    \E b \in 1..Len(d.bloques_equiv) :
        /\ Len(d.bloques_equiv[b]) > 1
        /\ \E k \in 1..Len(d.bloques_equiv[b]) : d.bloques_equiv[b][k] \notin Indices(d)

\* NewIntVar(0, num_slots - 1) with an empty domain, NewIntVar(0, num_dias - 1),
\* NewIntVar(0, periodos_por_dia - 1), or a division by zero: CP-SAT rejects the model.
ModeloInvalido(d) ==
    \/ NumSlots(d) <= 0
    \/ d.modo_multidia /\ (NumDias(d) <= 0 \/ PeriodosPorDia(d) <= 0)

\* The multi-day domain with its upper bound off by one: NewIntVar(0, num_slots, ...).
DominioConCotaInclusiva(d) ==
    IF d.modo_multidia THEN 0..NumSlots(d) ELSE 0..(NumSlots(d) - 1)

\* The domain of asignacion[i]: NewIntVar(0, num_slots - 1, ...).
DominioSlots(d) == 0..(NumSlots(d) - 1)

\* Constraint 1 with the loop stopping one member short: range(1, len(indices) - 1).
RestrEquivSinUltimo(d, a) ==
    \A b \in 1..Len(d.bloques_equiv) :
        LET indices == d.bloques_equiv[b] IN
        Len(indices) > 1 =>
            \A k \in 2..(Len(indices) - 1) : a[indices[1]] = a[indices[k]]

\* Constraint 1: every member of a block equals the block's first member.
RestrEquiv(d, a) ==
    \A b \in 1..Len(d.bloques_equiv) :
        LET indices == d.bloques_equiv[b] IN
        Len(indices) > 1 =>
            \A k \in 2..Len(indices) : a[indices[1]] = a[indices[k]]

\* Constraint 2 without the two lines that tie mismo_dia to the days: the
\* solver may set mismo_dia false, which switches the multi-day constraint off.
RestrDocenteSinCanal(d, a) ==
    \A i \in Indices(d) : \A j \in Indices(d) :
        (/\ i < j
         /\ <<i, j>> \notin MismoBloque(d)
         /\ U(d, i).id_docente = U(d, j).id_docente)
        => IF d.modo_multidia THEN TRUE ELSE a[i] # a[j]

\* Constraint 2: two units of one teacher, not of the same block.
RestrDocente(d, a) ==
    \A i \in Indices(d) : \A j \in Indices(d) :
        (/\ i < j
         /\ <<i, j>> \notin MismoBloque(d)
         /\ U(d, i).id_docente = U(d, j).id_docente)
        => IF d.modo_multidia
           THEN (get_dia(d, a[i]) = get_dia(d, a[j]))
                    => (get_periodo(d, a[i]) # get_periodo(d, a[j]))
           ELSE a[i] # a[j]

\* Constraint 3 with the teacher loop's exemption copied into it.
RestrGradoConExencion(d, a) ==
    \A i \in Indices(d) : \A j \in Indices(d) :
        (/\ i < j
         /\ <<i, j>> \notin MismoBloque(d)
         /\ U(d, i).grados \cap U(d, j).grados # {}) => a[i] # a[j]

\* Constraint 3: two units with a grade in common, block or not.
RestrGrado(d, a) ==
    \A i \in Indices(d) : \A j \in Indices(d) :
        (i < j /\ U(d, i).grados \cap U(d, j).grados # {}) => a[i] # a[j]

\* The assignments CP-SAT can return for the model resolver_horario built.
Soluciones(d) ==
    IF ModeloInvalido(d) THEN {}
    ELSE {a \in [Indices(d) -> DominioSlots(d)] :
            RestrEquiv(d, a) /\ RestrDocente(d, a) /\ RestrGrado(d, a)}

---------------------------------------------------------------------------
\* Result formatter (the success branch of resolver_horario).

TextoExito == "Solucion encontrada sin cruces"
Mensaje(texto, cabecera, problemas) ==
    [texto |-> texto, cabecera |-> cabecera, problemas |-> problemas]

Resultado(d, a) ==
    IF d.modo_multidia
    THEN [i \in Indices(d) |->
            LET dia_idx     == a[i] \div PeriodosPorDia(d)
                periodo_idx == a[i] % PeriodosPorDia(d)
            IN  [dia     |-> IF dia_idx < Len(d.dias) THEN d.dias[dia_idx + 1]
                             ELSE DiaSintetico(dia_idx),
                 periodo |-> IF periodo_idx < Len(d.periodos_validos)
                             THEN d.periodos_validos[periodo_idx + 1]
                             ELSE periodo_idx]]
    ELSE [i \in Indices(d) |-> d.periodos_validos[a[i] + 1]]

Modo(d) == IF d.modo_multidia THEN "multidia" ELSE "unidia"

RespuestaExito(d, a, st) ==
    [exito |-> TRUE, asignaciones |-> Resultado(d, a),
     mensaje |-> Mensaje(TextoExito, << >>, << >>), status |-> st, modo |-> Modo(d)]

\* The early return for an empty unidades: no 'status' and no 'modo' key.
RespuestaVacia ==
    [exito |-> TRUE, asignaciones |-> << >>,
     mensaje |-> Mensaje("No hay cursos para asignar", << >>, << >>),
     status |-> SinClave, modo |-> SinClave]

---------------------------------------------------------------------------
\* analizar_infactibilidad / analizar_infactibilidad_multidia.

\* u.get('docente_nombre', f'Docente {doc}'); the explored units carry no name.
Nombre(u) == <<"Docente", u.id_docente>>

BloquesNoVacios(d) == SelectSeq(d.bloques_equiv, LAMBDA indices : indices # << >>)

\* unidades_contadas: every index listed in a non-empty block.
UnidadesContadas(d) ==
    UNION {{d.bloques_equiv[b][k] : k \in 1..Len(d.bloques_equiv[b])} :
           b \in 1..Len(d.bloques_equiv)}

\* unidades[idx] raises IndexError for a first member that is no unit.
IndiceInvalido(d) ==
    \E b \in 1..Len(d.bloques_equiv) :
        d.bloques_equiv[b] # << >> /\ d.bloques_equiv[b][1] \notin Indices(d)

\* The count without unidades_contadas: every unit counts, block or not.
ObligacionesSinContadas(d) ==
    [k \in 1..Len(BloquesNoVacios(d)) |-> U(d, BloquesNoVacios(d)[k][1])] \o d.unidades

\* The teachers in the order the two loops count an obligation for them:
\* one per non-empty block (its first member's teacher), then one per unit
\* that no block lists.
Obligaciones(d) ==
    LET porBloque == [k \in 1..Len(BloquesNoVacios(d)) |->
                         U(d, BloquesNoVacios(d)[k][1])]
        idxSueltos == SelectSeq([i \in 1..NumUnidades(d) |-> i - 1],
                                LAMBDA i : i \notin UnidadesContadas(d))
    IN  porBloque \o [k \in 1..Len(idxSueltos) |-> U(d, idxSueltos[k])]

\* cursos_por_docente[doc]['count']
Cuenta(d, doc) ==
    Cardinality({k \in 1..Len(Obligaciones(d)) : Obligaciones(d)[k].id_docente = doc})

\* The keys of cursos_por_docente in insertion order, each with the unit that
\* inserted it (whose name the message shows).
DocentesEnOrden(d) ==
    LET ob == Obligaciones(d)
        primeros == SelectSeq([k \in 1..Len(ob) |-> k],
                       LAMBDA k : \A j \in 1..(k - 1) : ob[j].id_docente # ob[k].id_docente)
    IN  [k \in 1..Len(primeros) |-> ob[primeros[k]]]

\* problemas with exceso = count, the subtraction forgotten.
ProblemasSinResta(d, cap) ==
    LET excedidos == SelectSeq(DocentesEnOrden(d),
                               LAMBDA u : Cuenta(d, u.id_docente) > cap)
    IN  [k \in 1..Len(excedidos) |->
            [nombre |-> Nombre(excedidos[k]),
             count  |-> Cuenta(d, excedidos[k].id_docente),
             exceso |-> Cuenta(d, excedidos[k].id_docente)]]

\* problemas, for a capacity of cap slots.
Problemas(d, cap) ==
    LET excedidos == SelectSeq(DocentesEnOrden(d),
                               LAMBDA u : Cuenta(d, u.id_docente) > cap)
    IN  [k \in 1..Len(excedidos) |->
            [nombre |-> Nombre(excedidos[k]),
             count  |-> Cuenta(d, excedidos[k].id_docente),
             exceso |-> Cuenta(d, excedidos[k].id_docente) - cap]]

TextoGenerico == "Restricciones demasiado estrictas para encontrar solucion."

analizar_infactibilidad(d) ==
    LET problemas == Problemas(d, Len(d.periodos_validos)) IN
    IF problemas # << >>
    THEN Mensaje("No hay solucion sin cruces. Docentes con exceso:", << >>, problemas)
    ELSE Mensaje(TextoGenerico, << >>, << >>)

analizar_infactibilidad_multidia(d) ==
    LET max_periodos == PeriodosPorDia(d) * NumDias(d)
        problemas == Problemas(d, max_periodos)
    IN  IF problemas # << >>
        THEN Mensaje("No hay solucion sin cruces (dias x periodos = slots). Docentes:",
                     <<NumDias(d), PeriodosPorDia(d), max_periodos>>, problemas)
        ELSE Mensaje(TextoGenerico, << >>, << >>)

RespuestaSinSolucion(d) ==
    [exito |-> FALSE, asignaciones |-> << >>,
     mensaje |-> IF d.modo_multidia THEN analizar_infactibilidad_multidia(d)
                 ELSE analizar_infactibilidad(d),
     status |-> "INFEASIBLE", modo |-> Modo(d)]

\* main's except branch.
RespuestaError ==
    [exito |-> FALSE, asignaciones |-> << >>,
     mensaje |-> Mensaje("Error en solver: <excepcion>", << >>, << >>),
     status |-> "ERROR", modo |-> SinClave]

---------------------------------------------------------------------------
\* The explored requests.  The top-level 'grados' list is read and passed to
\* the analyzers but never used, so the documents do not carry it.

\* bloques_equiv: at most two blocks, each listing at most two unit indices
\* (in either order, possibly the same index twice, possibly none).
Bloques(n) == SeqsHasta(SeqsHasta(0..(n - 1), 2), 2)

Documento(unidades, periodos, bloques, multidia, dias, ppd) ==
    [unidades |-> unidades, periodos_validos |-> periodos, bloques_equiv |-> bloques,
     modo_multidia |-> multidia, dias |-> dias, periodos_por_dia |-> ppd]

ListasPeriodos == {ListaPeriodos(k) : k \in 0..MaxPeriodos}
ListasDias     == {ListaDias(k) : k \in 0..MaxDias}

\* Single-day requests of n units ('dias' and 'periodos_por_dia' are not read).
DatosUnidia(n) ==
    [unidades : [1..n -> Unidad], periodos_validos : ListasPeriodos,
     bloques_equiv : Bloques(n), modo_multidia : {FALSE}, dias : {<< >>},
     periodos_por_dia : {Ausente}]

\* Multi-day requests of n units; periodos_por_dia may be missing when the
\* solver is run directly (through /solve the key is always there).
DatosMultidia(n) ==
    [unidades : [1..n -> Unidad], periodos_validos : ListasPeriodos,
     bloques_equiv : Bloques(n), modo_multidia : {TRUE}, dias : ListasDias,
     periodos_por_dia : {Ausente} \cup 0..MaxPeriodos]

\* A few requests whose blocks name index 1 although unit 0 is the only unit.
DatosIndiceMalo ==
    [unidades : [1..1 -> Unidad], periodos_validos : {ListaPeriodos(0), ListaPeriodos(1)},
     bloques_equiv : {<<<<1>>>>, <<<<0, 1>>>>}, modo_multidia : BOOLEAN,
     dias : {ListaDias(1)}, periodos_por_dia : {1}]

\* Single-day requests of n units without blocks; a unit may have no grade.
UnidadSinBloques == [id_docente : Docentes, grados : GradoSets \cup {{}}]

DatosSinBloques(n) ==
    [unidades : [1..n -> UnidadSinBloques], periodos_validos : ListasPeriodos,
     bloques_equiv : {<< >>}, modo_multidia : {FALSE}, dias : {<< >>},
     periodos_por_dia : {Ausente}]

DatosBasura == Documento(<< >>, << >>, << >>, FALSE, << >>, Ausente)

\* What can arrive on the subprocess's stdin: a JSON document, or text that
\* json.loads rejects.
NoEsJson == [valido |-> FALSE, datos |-> DatosBasura]

\* Documents of up to two units, plus the ones with a bad index.
EsEntrada(e) ==
    \/ \E n \in 0..2 : e \in [valido : {TRUE}, datos : DatosUnidia(n)]
    \/ \E n \in 0..2 : e \in [valido : {TRUE}, datos : DatosMultidia(n)]
    \/ e \in [valido : {TRUE}, datos : DatosIndiceMalo]
    \/ e = NoEsJson

\* Block-free single-day documents of up to MaxUnidadesSinBloques units.
EsEntradaSinBloques(e) ==
    \/ \E n \in 0..MaxUnidadesSinBloques :
            e \in [valido : {TRUE}, datos : DatosSinBloques(n)]
    \/ e = NoEsJson

---------------------------------------------------------------------------
\* solver_horario.py main(), run as a process.

Presupuesto(d) == IF d.modo_multidia THEN MaxTimeMultidia ELSE MaxTimeUnidia

Termina(resp, vals, st) ==
    /\ fase' = "terminado"
    /\ salida' = resp
    /\ valores' = vals
    /\ status' = st
    /\ UNCHANGED <<stdin, peticion, hpc, http, reloj, inicioSolver>>

\* json.loads raises, a block of two or more names an index that is no unit
\* (KeyError while building), or the analyzer reads unidades[idx] for such an
\* index (IndexError): main prints the ERROR document and exits 1.
MainError ==
    /\ fase = "ejecutando"
    /\ \/ ~stdin.valido
       \/ /\ NumUnidades(stdin.datos) > 0
          /\ ClaveInvalida(stdin.datos)
    /\ Termina(RespuestaError, << >>, "NONE")

\* if num_unidades == 0: return before any model is built.
MainVacio ==
    /\ fase = "ejecutando"
    /\ stdin.valido
    /\ NumUnidades(stdin.datos) = 0
    /\ Termina(RespuestaVacia, << >>, "NONE")

\* Solve returns OPTIMAL or FEASIBLE with an assignment satisfying the model.
MainExito ==
    /\ fase = "ejecutando"
    /\ stdin.valido
    /\ NumUnidades(stdin.datos) > 0
    /\ ~ClaveInvalida(stdin.datos)
    /\ \E a \in Soluciones(stdin.datos) : \E st \in {"OPTIMAL", "FEASIBLE"} :
          Termina(RespuestaExito(stdin.datos, a, st), a, st)

\* What Solve can answer besides a solution.
StatusSinSolucion(d) ==
    IF ModeloInvalido(d) THEN {"MODEL_INVALID"}
    ELSE IF Soluciones(d) = {} THEN {"INFEASIBLE", "UNKNOWN"}
    ELSE {"UNKNOWN"}

\* Any other status: the else branch runs the analyzer and answers INFEASIBLE.
MainSinSolucion(st) ==
    /\ fase = "ejecutando"
    /\ stdin.valido
    /\ NumUnidades(stdin.datos) > 0
    /\ ~ClaveInvalida(stdin.datos)
    /\ st \in StatusSinSolucion(stdin.datos)
    /\ IF IndiceInvalido(stdin.datos)
       THEN Termina(RespuestaError, << >>, st)
       ELSE Termina(RespuestaSinSolucion(stdin.datos), << >>, st)

\* The solver run directly: python3 solver_horario.py < document.
InitProceso ==
    /\ fase = "ejecutando"
    /\ valores = << >>
    /\ status = "NONE"
    /\ salida = SinSalida
    /\ peticion = SinPeticion
    /\ hpc = "ninguno"
    /\ http = SinSalida
    /\ reloj = 0
    /\ inicioSolver = 0

Init == EsEntrada(stdin) /\ InitProceso

Next ==
    \/ MainError
    \/ MainVacio
    \/ MainExito
    \/ \E st \in {"INFEASIBLE", "UNKNOWN", "MODEL_INVALID"} : MainSinSolucion(st)

Spec == Init /\ [][Next]_vars

InitSinBloques == EsEntradaSinBloques(stdin) /\ InitProceso

SpecSinBloques == InitSinBloques /\ [][Next]_vars

---------------------------------------------------------------------------
\* app.py: POST /solve.

\* The request bodies explored through /solve: up to two units of one grade
\* without blocks, where periodos_por_dia may be left out of the body, and the
\* bodies with a bad block index.
UnidadApi == [id_docente : Docentes, grados : {{1}}]

EsPeticion(p) ==
    \/ \E n \in 0..2 :
            p \in [unidades : [1..n -> UnidadApi], periodos_validos : ListasPeriodos,
                   bloques_equiv : {<< >>}, modo_multidia : {FALSE}, dias : {<< >>},
                   periodos_por_dia : {Ausente}]
    \/ \E n \in 0..2 :
            p \in [unidades : [1..n -> UnidadApi], periodos_validos : ListasPeriodos,
                   bloques_equiv : {<< >>}, modo_multidia : {TRUE}, dias : ListasDias,
                   periodos_por_dia : {Ausente} \cup 0..MaxPeriodos]
    \/ p \in DatosIndiceMalo

\* class SolverInput: periodos_por_dia: int = 0; data.dict() carries every field.
SolverInput(p) ==
    [p EXCEPT !.periodos_por_dia = IF @ = Ausente THEN 0 ELSE @]

RespuestaTimeout ==
    [exito |-> FALSE, asignaciones |-> << >>,
     mensaje |-> Mensaje("Tiempo de ejecucion agotado (timeout)", << >>, << >>),
     status |-> SinClave, modo |-> SinClave]

RespuestaExcepcion ==
    [exito |-> FALSE, asignaciones |-> << >>,
     mensaje |-> Mensaje("<str(e)>", << >>, << >>),
     status |-> SinClave, modo |-> SinClave]

\* The clock advances in steps of half the shorter solver budget.
Paso    == MaxTimeUnidia \div 2
FinReloj == CommunicateTimeout + MaxTimeMultidia

\* subprocess.Popen(...) starts the solver and communicate() writes the
\* request to its stdin and starts waiting.
Popen ==
    /\ hpc = "recibida"
    /\ hpc' = "esperando"
    /\ fase' = "arrancando"
    /\ stdin' = [valido |-> TRUE, datos |-> SolverInput(peticion)]
    /\ reloj' = 0
    /\ UNCHANGED <<valores, status, salida, peticion, http, inicioSolver>>

\* Popen raises (no interpreter, no file): except Exception answers str(e).
PopenFalla ==
    /\ hpc = "recibida"
    /\ hpc' = "respondida"
    /\ http' = RespuestaExcepcion
    /\ UNCHANGED <<stdin, fase, valores, status, salida, peticion, reloj, inicioSolver>>

\* The interpreter has started, imported OR-Tools and entered main(); this
\* takes time (one step of the clock) before Solve is called.
ProcArranca ==
    /\ fase = "arrancando"
    /\ reloj > 0
    /\ fase' = "ejecutando"
    /\ inicioSolver' = reloj
    /\ UNCHANGED <<stdin, valores, status, salida, peticion, hpc, http, reloj>>

\* max_time_in_seconds: Solve answers within its budget, and answers UNKNOWN
\* only once the budget is used up.
DentroDelPresupuesto == reloj <= inicioSolver + Presupuesto(stdin.datos)
PresupuestoAgotado   == reloj >= inicioSolver + Presupuesto(stdin.datos)

\* Solve is searching: main got past json.loads, the empty-list return and
\* the model building, and the model passed validation (an invalid model is
\* answered MODEL_INVALID before any search).
Resolviendo ==
    /\ fase = "ejecutando"
    /\ stdin.valido
    /\ NumUnidades(stdin.datos) > 0
    /\ ~ClaveInvalida(stdin.datos)
    /\ ~ModeloInvalido(stdin.datos)

ProcError == MainError
ProcVacio == MainVacio
ProcExito == DentroDelPresupuesto /\ MainExito
ProcSinSolucion(st) ==
    /\ IF st = "UNKNOWN" THEN PresupuestoAgotado ELSE DentroDelPresupuesto
    /\ MainSinSolucion(st)

\* communicate() returns as soon as the process has ended: stderr is empty
\* (main catches every exception and prints to stdout), so the handler
\* returns json.loads(stdout).
HandlerDevuelve ==
    /\ hpc = "esperando"
    /\ fase = "terminado"
    /\ hpc' = "respondida"
    /\ http' = salida
    /\ UNCHANGED <<stdin, fase, valores, status, salida, peticion, reloj, inicioSolver>>

\* except subprocess.TimeoutExpired: the handler answers; nothing touches proc.
HandlerTimeout ==
    /\ hpc = "esperando"
    /\ fase # "terminado"
    /\ reloj >= CommunicateTimeout
    /\ hpc' = "respondida"
    /\ http' = RespuestaTimeout
    /\ UNCHANGED <<stdin, fase, valores, status, salida, peticion, reloj, inicioSolver>>

\* Time passes while the process starts up or Solve searches, unless something
\* is due now: the handler's wait has expired, the process has started up, or
\* the solver has reached its time limit.
Tick ==
    /\ reloj < FinReloj
    /\ fase \in {"arrancando", "ejecutando"}
    /\ ~(fase = "arrancando" /\ reloj >= Paso)
    /\ ~(hpc = "esperando" /\ reloj >= CommunicateTimeout)
    /\ fase = "ejecutando" => (Resolviendo /\ ~PresupuestoAgotado)
    /\ reloj' = reloj + Paso
    /\ UNCHANGED <<stdin, fase, valores, status, salida, peticion, hpc, http, inicioSolver>>

InitApi ==
    /\ EsPeticion(peticion)
    /\ hpc = "recibida"
    /\ stdin = NoEsJson
    /\ fase = "no_creado"
    /\ valores = << >>
    /\ status = "NONE"
    /\ salida = SinSalida
    /\ http = SinSalida
    /\ reloj = 0
    /\ inicioSolver = 0

NextApi ==
    \/ Popen
    \/ PopenFalla
    \/ ProcArranca
    \/ ProcError
    \/ ProcVacio
    \/ ProcExito
    \/ \E st \in {"INFEASIBLE", "UNKNOWN", "MODEL_INVALID"} : ProcSinSolucion(st)
    \/ HandlerDevuelve
    \/ HandlerTimeout
    \/ Tick

SpecApi == InitApi /\ [][NextApi]_vars

---------------------------------------------------------------------------
\* Properties.

D == stdin.datos

\* resolver_horario returned a solution (exito = true with assignments).
HaySolucion ==
    /\ fase = "terminado"
    /\ stdin.valido
    /\ salida.exito
    /\ NumUnidades(D) > 0

\* Units i and j are listed together in one block of bloques_equiv.
JuntasEnUnBloque(d, i, j) ==
    \E b \in 1..Len(d.bloques_equiv) :
        \E p \in 1..Len(d.bloques_equiv[b]) : \E q \in 1..Len(d.bloques_equiv[b]) :
            d.bloques_equiv[b][p] = i /\ d.bloques_equiv[b][q] = j

MismoDocente(d, i, j) == U(d, i).id_docente = U(d, j).id_docente
GradoComun(d, i, j)   == U(d, i).grados \cap U(d, j).grados # {}

\* The day and the period the solver's slot of unit i stands for.
DiaDe(i)     == valores[i] \div PeriodosPorDia(D)
PeriodoDe(i) == valores[i] % PeriodosPorDia(D)

(* C1: teacher non-overlap.  In every successful result, two distinct units  *)
(* with the same id_docente that are not listed together in one block have   *)
(* different slots in single-day mode, and in multi-day mode are not on the  *)
(* same day in the same period.                                              *)
C1_TeacherNonOverlap ==
    HaySolucion =>
        \A i \in Indices(D) : \A j \in Indices(D) :
            (i # j /\ MismoDocente(D, i, j) /\ ~JuntasEnUnBloque(D, i, j))
            => IF D.modo_multidia
               THEN ~(DiaDe(i) = DiaDe(j) /\ PeriodoDe(i) = PeriodoDe(j))
               ELSE valores[i] # valores[j]

\* Two units of one teacher, not in one block, solved onto the same day of a
\* multi-day plan (so that only the period keeps them apart).
C1_Witness ==
    /\ HaySolucion
    /\ D.modo_multidia
    /\ \E i \in Indices(D) : \E j \in Indices(D) :
          /\ i # j
          /\ MismoDocente(D, i, j)
          /\ ~JuntasEnUnBloque(D, i, j)
          /\ DiaDe(i) = DiaDe(j)

(* C2: grade non-overlap.  In every successful result, in both modes, two    *)
(* distinct units whose grados intersect have different composite slots,     *)
(* also when they are in the same block; so no successful result exists for  *)
(* a request with a block listing two units with a common grade.             *)
C2_GradeNonOverlap ==
    HaySolucion =>
        \A i \in Indices(D) : \A j \in Indices(D) :
            (i # j /\ GradoComun(D, i, j))
            => /\ valores[i] # valores[j]
               /\ ~JuntasEnUnBloque(D, i, j)

\* Two units with a common grade but different teachers, solved in a
\* multi-day request that carries a block (only the grade constraint keeps
\* the two apart).
C2_Witness ==
    /\ HaySolucion
    /\ D.modo_multidia
    /\ Len(D.bloques_equiv) > 0
    /\ \E i \in Indices(D) : \E j \in Indices(D) :
          i # j /\ GradoComun(D, i, j) /\ ~MismoDocente(D, i, j)

(* C3: equivalence.  In every successful result, all units listed in one     *)
(* block get the identical period label (single-day) or the identical        *)
(* (dia, periodo) pair (multi-day).                                          *)
C3_Equivalence ==
    HaySolucion =>
        \A i \in Indices(D) : \A j \in Indices(D) :
            JuntasEnUnBloque(D, i, j)
            => salida.asignaciones[i] = salida.asignaciones[j]

\* A solved multi-day request more than one slot wide with a block of two
\* different units.
C3_Witness ==
    /\ HaySolucion
    /\ D.modo_multidia
    /\ NumSlots(D) > 1
    /\ \E i \in Indices(D) : \E j \in Indices(D) : i # j /\ JuntasEnUnBloque(D, i, j)

\* resolver_horario took its else branch and the analyzer's message was printed.
AnalizadorCorrio ==
    /\ fase = "terminado"
    /\ stdin.valido
    /\ salida.status = "INFEASIBLE"

UnidadesDe(d, doc) == {i \in Indices(d) : U(d, i).id_docente = doc}

GradosDisjuntos(d) ==
    \A i \in Indices(d) : \A j \in Indices(d) : i # j => ~GradoComun(d, i, j)

\* The message has a line naming teacher doc with this count and this excess.
MensajeNombra(doc, count, exceso) ==
    \E k \in 1..Len(salida.mensaje.problemas) :
        salida.mensaje.problemas[k] =
            [nombre |-> <<"Docente", doc>>, count |-> count, exceso |-> exceso]

(* C4: capacity diagnosis.  Single-day, no blocks, pairwise disjoint grade   *)
(* sets: when a teacher has N units and N > M = len(periodos_validos), the   *)
(* result is exito = false with status INFEASIBLE and the message names that *)
(* teacher with the count N and the excess N - M.                            *)
C4_CapacityDiagnosis ==
    (/\ fase = "terminado"
     /\ stdin.valido
     /\ ~D.modo_multidia
     /\ D.bloques_equiv = << >>
     /\ GradosDisjuntos(D))
    => \A doc \in Docentes :
          LET N == Cardinality(UnidadesDe(D, doc))
              M == Len(D.periodos_validos)
          IN  N > M =>
                /\ ~salida.exito
                /\ salida.asignaciones = << >>
                /\ salida.status = "INFEASIBLE"
                /\ MensajeNombra(doc, N, N - M)

\* One teacher with three units of pairwise disjoint grade sets and a single
\* period: the message gives count 3, excess 2.
C4_Witness ==
    /\ AnalizadorCorrio
    /\ ~D.modo_multidia
    /\ D.bloques_equiv = << >>
    /\ GradosDisjuntos(D)
    /\ Len(D.periodos_validos) = 1
    /\ Cardinality(UnidadesDe(D, 1)) = 3
    /\ MensajeNombra(1, 3, 2)

\* Every index a block lists is a unit, no block lists a unit twice, and no
\* unit is listed in two blocks.
BloquesParticionan(d) ==
    /\ \A b \in 1..Len(d.bloques_equiv) : \A p \in 1..Len(d.bloques_equiv[b]) :
          /\ d.bloques_equiv[b][p] \in Indices(d)
          /\ \A q \in 1..Len(d.bloques_equiv[b]) :
                d.bloques_equiv[b][p] = d.bloques_equiv[b][q] => p = q
    /\ \A b \in 1..Len(d.bloques_equiv) : \A c \in 1..Len(d.bloques_equiv) :
          b # c => \A p \in 1..Len(d.bloques_equiv[b]) :
                      \A q \in 1..Len(d.bloques_equiv[c]) :
                          d.bloques_equiv[b][p] # d.bloques_equiv[c][q]

EnAlgunBloque(d, i) ==
    \E b \in 1..Len(d.bloques_equiv) : \E p \in 1..Len(d.bloques_equiv[b]) :
        d.bloques_equiv[b][p] = i

\* The obligation count as the claim words it: one per non-empty block whose
\* first member has the teacher, plus one per unit of the teacher in no block.
ObligacionesDe(d, doc) ==
    Cardinality({b \in 1..Len(d.bloques_equiv) :
                    /\ d.bloques_equiv[b] # << >>
                    /\ U(d, d.bloques_equiv[b][1]).id_docente = doc})
    + Cardinality({i \in UnidadesDe(d, doc) : ~EnAlgunBloque(d, i)})

\* len(periodos_validos) single-day, periodos_por_dia * len(dias) multi-day.
Capacidad(d) ==
    IF d.modo_multidia THEN PeriodosPorDia(d) * Len(d.dias)
    ELSE Len(d.periodos_validos)

(* C5: soundness of the capacity check.  For a request whose blocks list no  *)
(* unit twice and no unit in two blocks, in both modes: the analyzer's count *)
(* for a teacher is one per non-empty block whose first member has that      *)
(* teacher plus one per unit of that teacher in no block, and when it        *)
(* exceeds the number of slots, no assignment satisfies the equivalence,     *)
(* teacher and grade constraints resolver_horario built, so the result is    *)
(* not a success and the analyzer's message names that teacher.              *)
C5_CapacityCheckSound ==
    (stdin.valido /\ BloquesParticionan(D))
    => \A doc \in Docentes :
          /\ Cuenta(D, doc) = ObligacionesDe(D, doc)
          /\ Cuenta(D, doc) > Capacidad(D)
             => /\ Soluciones(D) = {}
                /\ fase = "terminado"
                   => /\ ~salida.exito
                      /\ MensajeNombra(doc, Cuenta(D, doc),
                                       Cuenta(D, doc) - Capacidad(D))

\* The analyzer reports a teacher over capacity in a multi-day request with
\* at least one slot and a block, the teacher having a unit outside the block.
C5_Witness ==
    /\ AnalizadorCorrio
    /\ BloquesParticionan(D)
    /\ D.modo_multidia
    /\ Capacidad(D) > 0
    /\ \E i \in Indices(D) : \E j \in Indices(D) :
          i # j /\ EnAlgunBloque(D, i) /\ ~EnAlgunBloque(D, j) /\ MismoDocente(D, i, j)
    /\ salida.mensaje.problemas # << >>

Elementos(lista) == {lista[k] : k \in 1..Len(lista)}

(* C7: response shape.  Every response of the solver core carries a status   *)
(* in {OPTIMAL, FEASIBLE, INFEASIBLE, ERROR} and a message, has exito = true  *)
(* exactly when the status is OPTIMAL or FEASIBLE, and has empty asignaciones *)
(* unless it is a success; for every input, the one with zero units included. *)
C7_ResponseShape ==
    fase = "terminado" =>
        /\ salida.status \in {"OPTIMAL", "FEASIBLE", "INFEASIBLE", "ERROR"}
        /\ salida.mensaje.texto # ""
        /\ salida.exito <=> salida.status \in {"OPTIMAL", "FEASIBLE"}
        /\ ~salida.exito => salida.asignaciones = << >>

\* A multi-day request within the stated input constraints was solved.
MultidiaResuelto ==
    /\ HaySolucion
    /\ D.modo_multidia
    /\ D.dias # << >>
    /\ PeriodosPorDia(D) > 0

(* C9: the label fallback never triggers.  For every multi-day request with  *)
(* units, dias non-empty and periodos_por_dia > 0, and every assignment the  *)
(* solver can return, the day index is below len(dias) and the period index  *)
(* below len(periodos_validos): every 'dia' of the response is an element of *)
(* dias and every 'periodo' an element of periodos_validos.                  *)
C9_FallbackNeverTriggers ==
    MultidiaResuelto =>
        \A i \in Indices(D) :
            /\ DiaDe(i) < Len(D.dias)
            /\ PeriodoDe(i) < Len(D.periodos_validos)
            /\ salida.asignaciones[i].dia \in Elementos(D.dias)
            /\ salida.asignaciones[i].periodo \in Elementos(D.periodos_validos)

(* C9, amended: for such a request the day index is always below len(dias),  *)
(* so every 'dia' is an element of dias and no 'DIA_k' label is emitted; the *)
(* period index is below periodos_por_dia, so every 'periodo' is an element  *)
(* of periodos_validos provided periodos_por_dia <= len(periodos_validos).   *)
C9_FallbackOnlyForShortPeriodList ==
    MultidiaResuelto =>
        \A i \in Indices(D) :
            /\ DiaDe(i) < Len(D.dias)
            /\ salida.asignaciones[i].dia = D.dias[DiaDe(i) + 1]
            /\ PeriodoDe(i) < PeriodosPorDia(D)
            /\ PeriodosPorDia(D) <= Len(D.periodos_validos)
                => /\ PeriodoDe(i) < Len(D.periodos_validos)
                   /\ salida.asignaciones[i].periodo
                        = D.periodos_validos[PeriodoDe(i) + 1]

\* A unit solved into the last slot of a multi-day plan of two days whose
\* periodos_por_dia equals len(periodos_validos).
C9_Witness ==
    /\ MultidiaResuelto
    /\ Len(D.dias) = 2
    /\ PeriodosPorDia(D) = Len(D.periodos_validos)
    /\ \E i \in Indices(D) : valores[i] = NumSlots(D) - 1

---------------------------------------------------------------------------
\* Properties of /solve.

(* C6: forced termination on budget overrun.  When the handler's wait on the *)
(* subprocess exceeds 60 s and the handler returns the timeout response, the *)
(* subprocess has been terminated: the handler has never answered while the  *)
(* request's subprocess is still running.                                    *)
C6_KilledOnTimeout ==
    (hpc = "respondida" /\ http = RespuestaTimeout)
    => fase \notin {"arrancando", "ejecutando"}

\* The request as it would read with periodos_por_dia = len(periodos_validos).
ConPeriodosPorDefecto(p) ==
    [p EXCEPT !.periodos_por_dia = Len(p.periodos_validos)]

(* C8: default periods per day.  A multi-day request whose periodos_por_dia  *)
(* is 0 (the request model's default) is solved with len(periodos_validos)   *)
(* periods per day: the slot domain is [0, len(dias) * len(periodos_validos)) *)
(* and a feasible request gets a successful response.                        *)
C8_DefaultPeriodsPerDay ==
    (/\ fase = "terminado"
     /\ status # "UNKNOWN"
     /\ peticion.modo_multidia
     /\ peticion.periodos_por_dia \in {Ausente, 0}
     /\ NumUnidades(peticion) > 0
     /\ Soluciones(ConPeriodosPorDefecto(peticion)) # {})
    => /\ PeriodosPorDia(D) = Len(D.periodos_validos)
       /\ NumSlots(D) = Len(D.dias) * Len(D.periodos_validos)
       /\ salida.exito

(* C10: timeout reported as infeasibility.  When the solver uses up its      *)
(* search budget without a solution or a proof, resolver_horario returns the *)
(* response of a proven infeasibility (exito = false, no asignaciones,       *)
(* status INFEASIBLE, the analyzer's message) and /solve relays that         *)
(* response to the caller.                                                   *)
C10_TimeoutRelayedAsInfeasible ==
    (status = "UNKNOWN" /\ fase = "terminado" /\ ~IndiceInvalido(D))
    => /\ salida = RespuestaSinSolucion(D)
       /\ hpc = "respondida" => http = salida

====
